---- MODULE Spec2Model ----
(***************************************************************************)
(* Check_V: a file screen (FileScannerScreen, explore.tsx) and a hash       *)
(* screen (HomeScreen) that look a SHA256 fingerprint up in a shared        *)
(* AsyncStorage cache and, on a miss, at the VirusTotal report endpoint.    *)
(*                                                                         *)
(* JavaScript values are modelled as follows.                               *)
(*   - a property that may be undefined is a set of at most one element:    *)
(*     {} is undefined, {x} is the value x;                                 *)
(*   - an object is a record; a key the object does not have is a key the   *)
(*     record does not have, a key whose value is undefined is a key whose  *)
(*     value is {};                                                         *)
(*   - null is the record Null;                                             *)
(*   - a text the user types, and so a fingerprint, is the sequence of its  *)
(*     runs [ch, n] (the character ch repeated n > 0 times, adjacent runs    *)
(*     of different characters); a message is the sequence of the parts     *)
(*     that were concatenated; '' is << >> in both;                         *)
(*   - numbers of the chart are exact rationals, NaN or Infinity.           *)
(* Every await of a handler is a step of its own; what the handler does     *)
(* between two awaits is one step.  The variables calls, failed, origin,    *)
(* writes and unhandled record what the collaborators saw (the calls of the *)
(* running attempt, as a test double would count them); before is the cache *)
(* as the running lookup found it when it started.                          *)
(***************************************************************************)
EXTENDS Integers, Sequences, FiniteSets, TLC

VARIABLES
    cache,          \* AsyncStorage: key -> stored string, for the keys that were set
    writes,         \* per key, the setItem calls of each screen that took effect
    shaInput,       \* HomeScreen state
    shaResults,
    shaLoading,
    shaError,
    progressAnim,   \* target of the last animateProgress call
    homePc,         \* the await checkHash is suspended at
    homeHash,       \* shaInput as captured by the running checkHash closure
    homeData,       \* resultData of the running checkHash, Null before it exists
    homeCalls,      \* collaborator calls of the current checkHash attempt
    homeFailed,     \* a collaborator call of the current attempt failed
    homeOrigin,     \* where shaResults came from: {} or {[hash, via]}
    homeBefore,     \* the cache as the running checkHash found it, << >> when none runs
    file,           \* FileScannerScreen state
    results,
    loading,
    error,
    filePc,         \* the await or callback the file flow is suspended at
    fileUri,        \* the uri generateHash was called with
    fileHash,       \* hash argument of the running checkVirusTotal
    fileData,       \* resultData of the running checkVirusTotal
    fileCalls,
    fileFailed,
    fileOrigin,
    fileBefore,     \* the cache as the running checkVirusTotal found it
    unhandled,      \* a promise rejection nobody handles has occurred
    sevInput,       \* getSeverityLevel: the results it is applied to
    sevFile,        \*   level returned by FileScannerScreen's getSeverityLevel
    sevHome,        \*   level returned by HomeScreen's getSeverityLevel
    chartInput,     \* AnimatedPieChart: the results whose stats are drawn
    chartProgress,  \*   the value of progress it is drawn at
    chartFile,      \*   the angles FileScannerScreen's chart hands to describeArc
    chartHome,      \*   the angles HomeScreen's chart hands to describeArc
    normBody,       \* normalisation: the response body it is applied to
    normFile,       \*   resultData built by checkVirusTotal
    normHome        \*   resultData built by checkHash

sharedVars == <<cache, writes>>
homeVars == <<shaInput, shaResults, shaLoading, shaError, progressAnim, homePc,
              homeHash, homeData, homeCalls, homeFailed, homeOrigin, homeBefore>>
fileVars == <<file, results, loading, error, filePc, fileUri, fileHash, fileData,
              fileCalls, fileFailed, fileOrigin, fileBefore, unhandled>>
sevVars == <<sevInput, sevFile, sevHome>>
chartVars == <<chartInput, chartProgress, chartFile, chartHome>>
normVars == <<normBody, normFile, normHome>>
vars == <<sharedVars, homeVars, fileVars, sevVars, chartVars, normVars>>

-----------------------------------------------------------------------------
(* JavaScript values *)

Null == [null |-> TRUE]
Undefined == {}
Some(x) == {x}
TheValue(opt) == CHOOSE x \in opt : TRUE

Run(c, n) == << [ch |-> c, n |-> n] >>

RECURSIVE TextLen(_)
TextLen(s) == IF s = << >> THEN 0 ELSE s[1].n + TextLen(Tail(s))

EmptyString == << >>
IsEmptyString(s) == \A i \in DOMAIN s : s[i] = ""

-----------------------------------------------------------------------------
(* The fingerprint pattern /^[a-fA-F0-9]{64}$/ *)

ShaLen == 64

HexChars == {"0", "1", "2", "3", "4", "5", "6", "7", "8", "9",
             "a", "b", "c", "d", "e", "f", "A", "B", "C", "D", "E", "F"}

MatchesSha256_AnyLength(s) == \A i \in DOMAIN s : s[i].ch \in HexChars

\* shaInput.match(/^[a-fA-F0-9]{64}$/)
MatchesSha256(s) == TextLen(s) = ShaLen /\ \A i \in DOMAIN s : s[i].ch \in HexChars

\* Fingerprints of the model: HashA and HashB are the digests of the two
\* files and can be typed as well; HashUpper is typed only.
HashA == Run("a", ShaLen)
HashB == Run("0", ShaLen \div 2) \o Run("c", ShaLen - ShaLen \div 2)
HashUpper == Run("F", ShaLen \div 2) \o Run("9", ShaLen - ShaLen \div 2)

\* Texts the user types into the hash field while both screens are in use.
ShaInputs == { HashA, HashB, Run("a", ShaLen - 1) }

\* Texts the user types into the hash field when only the hash screen is used.
AllShaInputs ==
    ShaInputs \cup
    { HashUpper,
      Run("a", ShaLen + 1),
      Run("a", ShaLen - 1) \o Run("g", 1),
      Run(" ", 1) \o Run("F", ShaLen \div 2 - 1) \o Run("9", ShaLen - ShaLen \div 2),
      Run("a", ShaLen) \o Run("\n", 1) }

-----------------------------------------------------------------------------
(* The report endpoint.  A response body is response.data.data: a record    *)
(* whose attributes, when present, hold last_analysis_results (the engines  *)
(* in the order Object.entries enumerates them) and last_analysis_stats.    *)

Prop(obj, key) == IF key \in DOMAIN obj THEN Some(obj[key]) ELSE Undefined

EnginesFull ==
    << [vendor |-> "Kaspersky",
        data |-> [result |-> Some("Trojan.Generic"), category |-> Some("malicious")]],
       [vendor |-> "Avast",
        data |-> [result |-> Undefined, category |-> Some("undetected")]],
       [vendor |-> "Bkav",
        data |-> [result |-> Some(""), category |-> Some("harmless")]] >>
EnginesQueued ==
    << [vendor |-> "Avast", data |-> [result |-> Undefined, category |-> Some("undetected")]] >>
EnginesNoCategory ==
    << [vendor |-> "Avast", data |-> [result |-> Some("Adware"), category |-> Undefined]] >>

StatsFull == [malicious |-> 3, suspicious |-> 1, undetected |-> 40, harmless |-> 10]
StatsZero == [malicious |-> 0, suspicious |-> 0, undetected |-> 0, harmless |-> 0]
StatsPartial == [malicious |-> 1, undetected |-> 5]

BodyFull ==
    [attributes |-> Some([last_analysis_results |-> EnginesFull,
                          last_analysis_stats |-> StatsFull])]
BodyZero ==
    [attributes |-> Some([last_analysis_results |-> EnginesQueued,
                          last_analysis_stats |-> StatsZero])]
BodyPartialStats ==
    [attributes |-> Some([last_analysis_results |-> EnginesFull,
                          last_analysis_stats |-> StatsPartial])]
BodyNoStats == [attributes |-> Some([last_analysis_results |-> EnginesNoCategory])]
BodyNoResults == [attributes |-> Some([last_analysis_stats |-> StatsFull])]
BodyNoAttributes == [attributes |-> Undefined]

\* What a rejected promise carries: err.response?.data?.error?.message and
\* err.message.
Failure(responseMessage, message) == [response |-> responseMessage, message |-> message]

NotFound == Failure(Some("File not found"), "Request failed with status code 404")
Unauthorized == Failure(Some("Wrong API key"), "Request failed with status code 401")
NetworkError == Failure(Undefined, "Network Error")
StorageError == Failure(Undefined, "Failed to access storage")
PickerError == Failure(Undefined, "Picker unavailable")
HashError == Failure(Undefined, "Digest failed")
ReadError == Failure(Undefined, "Failed to fetch")

Resolved(value) == [ok |-> TRUE, value |-> value]
Rejected(err) == [ok |-> FALSE, err |-> err]

\* The outcomes of axios.get for a fingerprint, in the order they are tried.
\* The service reports HashA as analysed or as queued, answers HashB with a
\* body that misses something, and does not know HashUpper or answers it
\* without attributes; any request can fail on the way.
AxiosOutcomes(hash) ==
    (IF hash = HashA THEN << Resolved(BodyFull), Resolved(BodyZero) >>
     ELSE IF hash = HashB
          THEN << Resolved(BodyPartialStats), Resolved(BodyNoStats),
                  Resolved(BodyNoResults) >>
          ELSE << Rejected(NotFound), Rejected(Unauthorized),
                  Resolved(BodyNoAttributes) >>)
    \o << Rejected(NetworkError) >>

-----------------------------------------------------------------------------
(* Normalisation of a response into resultData.  Reading a property of an   *)
(* undefined value and Object.entries(undefined) throw a TypeError, which   *)
(* is returned here as Rejected.                                            *)

TypeErrorRead == Failure(Undefined, "Cannot read properties of undefined")
TypeErrorEntries == Failure(Undefined, "Cannot convert undefined or null to object")

ResultOrClean_OnlyAbsent(result) ==
    IF result # Undefined THEN TheValue(result) ELSE "Clean"

\* data.result || 'Clean': undefined, null and '' are falsy.
ResultOrClean(result) ==
    IF result # Undefined /\ TheValue(result) # "" THEN TheValue(result) ELSE "Clean"

\* checkVirusTotal, the lines between axios.get and AsyncStorage.setItem.
FileResultData(body) ==
    IF body.attributes = Undefined THEN Rejected(TypeErrorRead)
    ELSE LET attributes == TheValue(body.attributes)
             analysisResults == Prop(attributes, "last_analysis_results")
             stats == Prop(attributes, "last_analysis_stats")
         IN  IF analysisResults = Undefined THEN Rejected(TypeErrorEntries)
             ELSE LET entries == TheValue(analysisResults)
                  IN  Resolved([stats |-> stats,
                                vendors |-> [i \in DOMAIN entries |->
                                    [vendor |-> entries[i].vendor,
                                     result |-> ResultOrClean(entries[i].data.result),
                                     category |-> entries[i].data.category]]])

\* checkHash, the lines between axios.get and AsyncStorage.setItem.
HomeResultData(body) ==
    IF body.attributes = Undefined THEN Rejected(TypeErrorRead)
    ELSE LET attributes == TheValue(body.attributes)
             analysisResults == Prop(attributes, "last_analysis_results")
             stats == Prop(attributes, "last_analysis_stats")
         IN  IF analysisResults = Undefined THEN Rejected(TypeErrorEntries)
             ELSE LET entries == TheValue(analysisResults)
                  IN  Resolved([stats |-> stats,
                                vendors |-> [i \in DOMAIN entries |->
                                    [vendor |-> entries[i].vendor,
                                     result |-> ResultOrClean(entries[i].data.result),
                                     category |-> entries[i].data.category]]])

-----------------------------------------------------------------------------
(* JSON.stringify and JSON.parse of a ScanResult.  stringify leaves out the *)
(* keys of an object whose value is undefined; the text is modelled by the  *)
(* object it denotes, wrapped in [json |-> ...].                            *)

StringifyVendor(v) ==
    IF v.category = Undefined
    THEN [vendor |-> v.vendor, result |-> v.result]
    ELSE [vendor |-> v.vendor, result |-> v.result, category |-> v.category]

StringifyObject_NoVendors(r) ==
    IF r.stats = Undefined THEN [vendors |-> << >>]
    ELSE [stats |-> r.stats, vendors |-> << >>]

StringifyObject(r) ==
    LET vendors == [i \in DOMAIN r.vendors |-> StringifyVendor(r.vendors[i])]
    IN  IF r.stats = Undefined
        THEN [vendors |-> vendors]
        ELSE [stats |-> r.stats, vendors |-> vendors]

JSONstringify(r) == [json |-> StringifyObject(r)]

JSONparse(text) == text.json

\* results.stats of a ScanResult in memory or parsed.
StatsOf(r) == IF "stats" \in DOMAIN r THEN r.stats ELSE Undefined

StatKeys == {"malicious", "suspicious", "undetected", "harmless"}

-----------------------------------------------------------------------------
(* AsyncStorage *)

GetItem_Miss(store, key) == Null

\* getItem resolves with null for a key that was never set.
GetItem(store, key) == IF key \in DOMAIN store THEN store[key] ELSE Null

SetItem_Lost(store, key, text) == store

SetItem(store, key, text) ==
    [k \in DOMAIN store \cup {key} |-> IF k = key THEN text ELSE store[k]]

\* How many setItem calls of each screen took effect on each key.
NoWrites == [home |-> 0, file |-> 0]

LogWrite(w, key, screen) ==
    [k \in DOMAIN w \cup {key} |->
        IF k # key THEN w[k]
        ELSE IF k \in DOMAIN w THEN [w[k] EXCEPT ![screen] = @ + 1]
        ELSE [NoWrites EXCEPT ![screen] = 1]]

NoCalls == [getItem |-> 0, setItem |-> 0, axios |-> 0]

-----------------------------------------------------------------------------
(* Messages *)

\* err.response?.data?.error?.message || err.message
ErrorText(err) ==
    IF err.response # Undefined /\ TheValue(err.response) # ""
    THEN TheValue(err.response)
    ELSE err.message

InvalidSha256 == << "Invalid SHA256 format" >>
FileVirusTotalError(err) == << "VirusTotal Error: ", ErrorText(err) >>
HomeVirusTotalError(err) == << "VirusTotal Error: ", ErrorText(err) >>
PickingError(err) == << "Error picking file: ", err.message >>
GeneratingHashError(err) == << "Error generating hash: ", err.message >>

-----------------------------------------------------------------------------
(* getSeverityLevel.  results.stats.malicious of a results without stats     *)
(* throws a TypeError; a missing count is undefined, the sum is then NaN,    *)
(* every comparison with it is false and the last return is taken.           *)

FileGetSeverityLevel_Strict(res) ==
    IF res = Null THEN "Unknown"
    ELSE IF StatsOf(res) = Undefined THEN "TypeError"
    ELSE LET stats == TheValue(StatsOf(res))
         IN  IF ~({"malicious", "suspicious"} \subseteq DOMAIN stats) THEN "Critical Risk"
             ELSE LET totalBad == stats.malicious + stats.suspicious
                  IN  IF totalBad = 0 THEN "Clean"
                      ELSE IF totalBad < 2 THEN "Low Risk"
                      ELSE IF totalBad < 5 THEN "Moderate Risk"
                      ELSE IF totalBad < 10 THEN "High Risk"
                      ELSE "Critical Risk"

\* FileScannerScreen
FileGetSeverityLevel(res) ==
    IF res = Null THEN "Unknown"
    ELSE IF StatsOf(res) = Undefined THEN "TypeError"
    ELSE LET stats == TheValue(StatsOf(res))
         IN  IF ~({"malicious", "suspicious"} \subseteq DOMAIN stats) THEN "Critical Risk"
             ELSE LET totalBad == stats.malicious + stats.suspicious
                  IN  IF totalBad = 0 THEN "Clean"
                      ELSE IF totalBad <= 2 THEN "Low Risk"
                      ELSE IF totalBad <= 5 THEN "Moderate Risk"
                      ELSE IF totalBad <= 10 THEN "High Risk"
                      ELSE "Critical Risk"

\* HomeScreen
HomeGetSeverityLevel(res) ==
    IF res = Null THEN "Unknown"
    ELSE IF StatsOf(res) = Undefined THEN "TypeError"
    ELSE LET stats == TheValue(StatsOf(res))
         IN  IF ~({"malicious", "suspicious"} \subseteq DOMAIN stats) THEN "Critical Risk"
             ELSE LET totalBad == stats.malicious + stats.suspicious
                  IN  IF totalBad = 0 THEN "Clean"
                      ELSE IF totalBad <= 2 THEN "Low Risk"
                      ELSE IF totalBad <= 5 THEN "Moderate Risk"
                      ELSE IF totalBad <= 10 THEN "High Risk"
                      ELSE "Critical Risk"

-----------------------------------------------------------------------------
(* Numbers of the chart: a non-negative rational [num, den] in lowest terms, *)
(* NaN or Infinity, with the arithmetic of JavaScript on them (rounding      *)
(* apart).                                                                  *)

NaN == [nan |-> TRUE]
Infinity == [inf |-> TRUE]
IsNaN(x) == "nan" \in DOMAIN x
IsInfinity(x) == "inf" \in DOMAIN x
IsFinite(x) == "num" \in DOMAIN x

RECURSIVE GCD(_, _)
GCD(a, b) == IF b = 0 THEN a ELSE GCD(b, a % b)

Rat(n, d) == LET g == GCD(n, d) IN [num |-> n \div g, den |-> d \div g]
Zero == Rat(0, 1)

\* A count read from stats: undefined where the key is missing.
NumberOf(opt) == IF opt = Undefined THEN NaN ELSE Rat(TheValue(opt), 1)

NumAdd(a, b) ==
    IF IsNaN(a) \/ IsNaN(b) THEN NaN
    ELSE IF IsInfinity(a) \/ IsInfinity(b) THEN Infinity
    ELSE Rat(a.num * b.den + b.num * a.den, a.den * b.den)

NumMul(a, b) ==
    IF IsNaN(a) \/ IsNaN(b) THEN NaN
    ELSE IF IsInfinity(a) THEN (IF IsFinite(b) /\ b.num = 0 THEN NaN ELSE Infinity)
    ELSE IF IsInfinity(b) THEN (IF a.num = 0 THEN NaN ELSE Infinity)
    ELSE Rat(a.num * b.num, a.den * b.den)

\* a / b: 0 / 0 is NaN, x / 0 is Infinity for x > 0.
NumDiv(a, b) ==
    IF IsNaN(a) \/ IsNaN(b) THEN NaN
    ELSE IF IsInfinity(a) THEN (IF IsInfinity(b) THEN NaN ELSE Infinity)
    ELSE IF IsInfinity(b) THEN Zero
    ELSE IF b.num = 0 THEN (IF a.num = 0 THEN NaN ELSE Infinity)
    ELSE Rat(a.num * b.den, a.den * b.num)

FullTurn == 360

\* Values of the animation parameter the chart is drawn at.
ProgressValues == { Zero, Rat(1, 2), Rat(1, 1) }

RECURSIVE SumValues_SkipFirst(_)
SumValues_SkipFirst(data) ==
    IF Len(data) <= 1 THEN Zero
    ELSE NumAdd(SumValues_SkipFirst(SubSeq(data, 1, Len(data) - 1)), data[Len(data)].value)

RECURSIVE SumValues(_)
\* data.reduce((sum, item) => sum + item.value, 0)
SumValues(data) ==
    IF data = << >> THEN Zero
    ELSE NumAdd(SumValues(SubSeq(data, 1, Len(data) - 1)), data[Len(data)].value)

RECURSIVE FileSlices_AnimatedCumulative(_, _, _, _)
FileSlices_AnimatedCumulative(data, total, progress, cumulativeAngle) ==
    IF data = << >> THEN << >>
    ELSE LET sliceAngle == NumMul(NumDiv(data[1].value, total), Rat(FullTurn, 1))
             animatedEndAngle == NumAdd(cumulativeAngle, NumMul(sliceAngle, progress))
         IN  << [startAngle |-> cumulativeAngle, endAngle |-> animatedEndAngle] >>
             \o FileSlices_AnimatedCumulative(Tail(data), total, progress,
                                              animatedEndAngle)

RECURSIVE FileSlices(_, _, _, _)
\* FileScannerScreen's AnimatedPieChart, the body of data.map: the angles
\* handed to describeArc for each slice, cumulativeAngle carried along.
FileSlices(data, total, progress, cumulativeAngle) ==
    IF data = << >> THEN << >>
    ELSE LET sliceAngle == NumMul(NumDiv(data[1].value, total), Rat(FullTurn, 1))
             animatedEndAngle == NumAdd(cumulativeAngle, NumMul(sliceAngle, progress))
         IN  << [startAngle |-> cumulativeAngle, endAngle |-> animatedEndAngle] >>
             \o FileSlices(Tail(data), total, progress,
                           NumAdd(cumulativeAngle, sliceAngle))

FileAnimatedPieChart(data, progress) == FileSlices(data, SumValues(data), progress, Zero)

RECURSIVE HomeSlices(_, _, _, _)
\* HomeScreen's AnimatedPieChart, the body of data.map.
HomeSlices(data, total, progress, cumulativeAngle) ==
    IF data = << >> THEN << >>
    ELSE LET sliceAngle == NumMul(NumDiv(data[1].value, total), Rat(FullTurn, 1))
             animatedEndAngle == NumAdd(cumulativeAngle, NumMul(sliceAngle, progress))
         IN  << [startAngle |-> cumulativeAngle, endAngle |-> animatedEndAngle] >>
             \o HomeSlices(Tail(data), total, progress,
                           NumAdd(cumulativeAngle, sliceAngle))

HomeAnimatedPieChart(data, progress) == HomeSlices(data, SumValues(data), progress, Zero)

\* pieData of FileScannerScreen, for results that have stats.
FilePieData(res) ==
    IF res = Null THEN << >>
    ELSE LET stats == TheValue(StatsOf(res))
         IN  << [value |-> NumberOf(Prop(stats, "malicious")), color |-> "danger"],
                [value |-> NumberOf(Prop(stats, "suspicious")), color |-> "#FFC107"],
                [value |-> NumberOf(Prop(stats, "harmless")), color |-> "success"],
                [value |-> NumberOf(Prop(stats, "undetected")), color |-> "#9E9E9E"] >>

\* pieData of HomeScreen, for results that have stats.
HomePieData(res) ==
    IF res = Null THEN << >>
    ELSE LET stats == TheValue(StatsOf(res))
         IN  << [value |-> NumberOf(Prop(stats, "malicious")), color |-> "danger"],
                [value |-> NumberOf(Prop(stats, "suspicious")), color |-> "#FFC107"],
                [value |-> NumberOf(Prop(stats, "harmless")), color |-> "success"],
                [value |-> NumberOf(Prop(stats, "undetected")), color |-> "#999"] >>

\* What each screen renders below the button: the error text, else the results.
FileRendersResults == IsEmptyString(error) /\ results # Null
HomeRendersResults == IsEmptyString(shaError) /\ shaResults # Null

-----------------------------------------------------------------------------
(* HomeScreen: the hash screen *)

\* onChangeText={setShaInput}: the field is never disabled.
ChangeTextTo(texts) ==
    /\ \E text \in texts : text # shaInput /\ shaInput' = text
    /\ UNCHANGED <<shaResults, shaLoading, shaError, progressAnim, homePc, homeHash,
                   homeData, homeCalls, homeFailed, homeOrigin, homeBefore>>
    /\ UNCHANGED <<sharedVars, fileVars, sevVars, chartVars, normVars>>

ChangeText == ChangeTextTo(ShaInputs)

ChangeAnyText == ChangeTextTo(AllShaInputs)

HomeCatch_Silent(err) ==
    /\ progressAnim' = "0"
    /\ shaLoading' = FALSE
    /\ homePc' = "idle"
    /\ homeData' = Null
    /\ homeFailed' = TRUE
    /\ homeBefore' = << >>
    /\ UNCHANGED <<shaInput, shaResults, shaError, homeHash, homeCalls, homeOrigin>>

HomeCatch_Retry(err) ==
    IF homePc = "axios" /\ homeCalls.axios < 2
    THEN /\ homeCalls' = [homeCalls EXCEPT !.axios = @ + 1]
         /\ UNCHANGED <<shaInput, shaResults, shaLoading, shaError, progressAnim, homePc,
                        homeHash, homeData, homeFailed, homeOrigin, homeBefore>>
    ELSE /\ shaError' = HomeVirusTotalError(err)
         /\ progressAnim' = "0"
         /\ shaLoading' = FALSE
         /\ homePc' = "idle"
         /\ homeData' = Null
         /\ homeFailed' = TRUE
         /\ homeBefore' = << >>
         /\ UNCHANGED <<shaInput, shaResults, homeHash, homeCalls, homeOrigin>>

\* catch (err) { setShaError(...); animateProgress(0) } finally { setShaLoading(false) }
HomeCatch(err) ==
    /\ shaError' = HomeVirusTotalError(err)
    /\ progressAnim' = "0"
    /\ shaLoading' = FALSE
    /\ homePc' = "idle"
    /\ homeData' = Null
    /\ homeFailed' = TRUE
    /\ homeBefore' = << >>
    /\ UNCHANGED <<shaInput, shaResults, homeHash, homeCalls, homeOrigin>>

HomeButtonDisabled_Never == FALSE

\* <Pressable onPress={checkHash} disabled={shaLoading}>
HomeButtonDisabled == shaLoading

\* onPress={checkHash}: checkHash up to its first await.
CheckHash ==
    /\ ~HomeButtonDisabled
    /\ homeHash' = Some(shaInput)
    /\ IF ~MatchesSha256(shaInput)
       THEN /\ shaError' = InvalidSha256
            /\ progressAnim' = "0"
            /\ homeFailed' = TRUE
            /\ homeCalls' = NoCalls
            /\ UNCHANGED <<shaLoading, homePc, homeBefore>>
       ELSE /\ shaLoading' = TRUE
            /\ shaError' = EmptyString
            /\ progressAnim' = "0.3"
            /\ homeFailed' = FALSE
            /\ homeCalls' = [NoCalls EXCEPT !.getItem = 1]
            /\ homePc' = "getItem"
            /\ homeBefore' = cache
    /\ UNCHANGED <<shaInput, shaResults, homeData, homeOrigin>>
    /\ UNCHANGED <<sharedVars, fileVars, sevVars, chartVars, normVars>>

\* await AsyncStorage.getItem(shaInput) settles; on a miss axios.get is called.
HomeGetItemSettles ==
    /\ homePc = "getItem"
    /\ \E outcome \in {Rejected(StorageError),
                       Resolved(GetItem(cache, TheValue(homeHash)))} :
          IF ~outcome.ok THEN HomeCatch(outcome.err)
          ELSE IF outcome.value # Null
          THEN /\ shaResults' = JSONparse(outcome.value)
               /\ homeOrigin' = Some([hash |-> TheValue(homeHash), via |-> "cache"])
               /\ progressAnim' = "1"
               /\ shaLoading' = FALSE
               /\ homePc' = "idle"
               /\ homeBefore' = << >>
               /\ UNCHANGED <<shaInput, shaError, homeHash, homeData, homeCalls,
                              homeFailed>>
          ELSE /\ homeCalls' = [homeCalls EXCEPT !.axios = @ + 1]
               /\ homePc' = "axios"
               /\ UNCHANGED <<shaInput, shaResults, shaLoading, shaError, progressAnim,
                              homeHash, homeData, homeFailed, homeOrigin, homeBefore>>
    /\ UNCHANGED <<sharedVars, fileVars, sevVars, chartVars, normVars>>

\* await axios.get(...) settles; a response is normalised and setItem is called.
HomeAxiosSettles ==
    /\ homePc = "axios"
    /\ LET outcomes == AxiosOutcomes(TheValue(homeHash))
       IN  \E i \in DOMAIN outcomes :
             LET resultData == IF outcomes[i].ok THEN HomeResultData(outcomes[i].value)
                               ELSE outcomes[i]
             IN  IF ~resultData.ok THEN HomeCatch(resultData.err)
                 ELSE /\ homeData' = resultData.value
                      /\ homeCalls' = [homeCalls EXCEPT !.setItem = @ + 1]
                      /\ homePc' = "setItem"
                      /\ UNCHANGED <<shaInput, shaResults, shaLoading, shaError,
                                     progressAnim, homeHash, homeFailed, homeOrigin,
                                     homeBefore>>
    /\ UNCHANGED <<sharedVars, fileVars, sevVars, chartVars, normVars>>

HomeSetItemSettles_WriteBeforeFail ==
    /\ homePc = "setItem"
    /\ \/ /\ HomeCatch(StorageError)
          /\ cache' = SetItem(cache, TheValue(homeHash), JSONstringify(homeData))
          /\ writes' = LogWrite(writes, TheValue(homeHash), "home")
       \/ /\ cache' = SetItem(cache, TheValue(homeHash), JSONstringify(homeData))
          /\ writes' = LogWrite(writes, TheValue(homeHash), "home")
          /\ shaResults' = homeData
          /\ homeOrigin' = Some([hash |-> TheValue(homeHash), via |-> "network"])
          /\ progressAnim' = "1"
          /\ shaLoading' = FALSE
          /\ homePc' = "idle"
          /\ homeData' = Null
          /\ homeBefore' = << >>
          /\ UNCHANGED <<shaInput, shaError, homeHash, homeCalls, homeFailed>>
    /\ UNCHANGED <<fileVars, sevVars, chartVars, normVars>>

\* await AsyncStorage.setItem(shaInput, JSON.stringify(resultData)) settles.
HomeSetItemSettles ==
    /\ homePc = "setItem"
    /\ \/ /\ HomeCatch(StorageError)
          /\ UNCHANGED sharedVars
       \/ /\ cache' = SetItem(cache, TheValue(homeHash), JSONstringify(homeData))
          /\ writes' = LogWrite(writes, TheValue(homeHash), "home")
          /\ shaResults' = homeData
          /\ homeOrigin' = Some([hash |-> TheValue(homeHash), via |-> "network"])
          /\ progressAnim' = "1"
          /\ shaLoading' = FALSE
          /\ homePc' = "idle"
          /\ homeData' = Null
          /\ homeBefore' = << >>
          /\ UNCHANGED <<shaInput, shaError, homeHash, homeCalls, homeFailed>>
    /\ UNCHANGED <<fileVars, sevVars, chartVars, normVars>>

-----------------------------------------------------------------------------
(* FileScannerScreen: the file screen *)

\* What DocumentPicker.getDocumentAsync resolves with: no assets when the user
\* cancels, else the selected file.
PickerFiles ==
    << [name |-> "report.pdf", size |-> Some(2048), uri |-> "file:///report.pdf"],
       [name |-> "empty.bin", size |-> Undefined, uri |-> "file:///empty.bin"] >>

PickerOutcomes ==
    << Rejected(PickerError), Resolved([assets |-> Undefined]) >>
    \o [i \in DOMAIN PickerFiles |-> Resolved([assets |-> Some(<< PickerFiles[i] >>)])]

\* Crypto.digestStringAsync(SHA256, text of the file): a function of the content.
Digest(uri) == IF uri = "file:///report.pdf" THEN HashA ELSE HashB

\* catch of generateHash
GenerateHashCatch(err) ==
    /\ error' = GeneratingHashError(err)
    /\ loading' = FALSE
    /\ filePc' = "idle"
    /\ fileFailed' = TRUE
    /\ UNCHANGED <<file, results, fileUri, fileHash, fileData, fileCalls, fileOrigin,
                   fileBefore, unhandled>>

\* catch and finally of checkVirusTotal
FileCatch(err) ==
    /\ error' = FileVirusTotalError(err)
    /\ loading' = FALSE
    /\ filePc' = "idle"
    /\ fileData' = Null
    /\ fileFailed' = TRUE
    /\ fileBefore' = << >>
    /\ UNCHANGED <<file, results, fileUri, fileHash, fileCalls, fileOrigin, unhandled>>

\* <Pressable onPress={pickDocument} disabled={loading}>
FileButtonDisabled == loading

\* onPress={pickDocument}: pickDocument, and generateHash up to its first
\* await.  The picker is modal: nothing else runs while it is open.
PickDocument ==
    /\ ~FileButtonDisabled
    /\ \E i \in DOMAIN PickerOutcomes :
         LET result == PickerOutcomes[i]
         IN  IF ~result.ok
             THEN /\ error' = PickingError(result.err)
                  /\ fileFailed' = TRUE
                  /\ UNCHANGED <<file, loading, filePc, fileUri, fileHash, fileCalls>>
             ELSE IF result.value.assets = Undefined
             THEN /\ fileFailed' = FALSE
                  /\ UNCHANGED <<file, loading, error, filePc, fileUri, fileHash,
                                 fileCalls>>
             ELSE LET selectedFile == TheValue(result.value.assets)[1]
                  IN  /\ file' = [name |-> selectedFile.name,
                                  size |-> IF selectedFile.size = Undefined THEN 0
                                           ELSE TheValue(selectedFile.size),
                                  uri |-> selectedFile.uri]
                      /\ error' = EmptyString
                      /\ loading' = TRUE
                      /\ fileUri' = Some(selectedFile.uri)
                      /\ fileHash' = Undefined
                      /\ fileCalls' = NoCalls
                      /\ fileFailed' = FALSE
                      /\ filePc' = "fetch"
    /\ UNCHANGED <<results, fileData, fileOrigin, fileBefore, unhandled>>
    /\ UNCHANGED <<sharedVars, homeVars, sevVars, chartVars, normVars>>

\* await fetch(fileUri) settles.
FileFetchSettles ==
    /\ filePc = "fetch"
    /\ \/ GenerateHashCatch(ReadError)
       \/ /\ filePc' = "blob"
          /\ UNCHANGED <<file, results, loading, error, fileUri, fileHash, fileData,
                         fileCalls, fileFailed, fileOrigin, fileBefore, unhandled>>
    /\ UNCHANGED <<sharedVars, homeVars, sevVars, chartVars, normVars>>

\* await response.blob() settles; reader.readAsText(fileData) ends the try block.
FileBlobSettles ==
    /\ filePc = "blob"
    /\ \/ GenerateHashCatch(ReadError)
       \/ /\ filePc' = "readAsText"
          /\ UNCHANGED <<file, results, loading, error, fileUri, fileHash, fileData,
                         fileCalls, fileFailed, fileOrigin, fileBefore, unhandled>>
    /\ UNCHANGED <<sharedVars, homeVars, sevVars, chartVars, normVars>>

\* The FileReader finishes: the load event runs onload up to its await; for
\* the error event no handler is installed.
FileReaderSettles ==
    /\ filePc = "readAsText"
    /\ \/ /\ filePc' = "digest"
          /\ UNCHANGED fileFailed
       \/ /\ filePc' = "idle"
          /\ fileFailed' = TRUE
    /\ UNCHANGED <<file, results, loading, error, fileUri, fileHash, fileData, fileCalls,
                   fileOrigin, fileBefore, unhandled>>
    /\ UNCHANGED <<sharedVars, homeVars, sevVars, chartVars, normVars>>

\* await Crypto.digestStringAsync(...) settles inside onload, which nobody
\* awaits; then checkVirusTotal(hash) up to its first await.
FileDigestSettles ==
    /\ filePc = "digest"
    /\ \/ /\ unhandled' = TRUE
          /\ filePc' = "idle"
          /\ fileFailed' = TRUE
          /\ UNCHANGED <<fileHash, fileCalls, fileBefore>>
       \/ /\ fileHash' = Some(Digest(TheValue(fileUri)))
          /\ fileCalls' = [fileCalls EXCEPT !.getItem = @ + 1]
          /\ filePc' = "getItem"
          /\ fileBefore' = cache
          /\ UNCHANGED <<unhandled, fileFailed>>
    /\ UNCHANGED <<file, results, loading, error, fileUri, fileData, fileOrigin>>
    /\ UNCHANGED <<sharedVars, homeVars, sevVars, chartVars, normVars>>

\* await AsyncStorage.getItem(hash) settles; on a miss axios.get is called.
FileGetItemSettles ==
    /\ filePc = "getItem"
    /\ \E outcome \in {Rejected(StorageError),
                       Resolved(GetItem(cache, TheValue(fileHash)))} :
          IF ~outcome.ok THEN FileCatch(outcome.err)
          ELSE IF outcome.value # Null
          THEN /\ results' = JSONparse(outcome.value)
               /\ fileOrigin' = Some([hash |-> TheValue(fileHash), via |-> "cache"])
               /\ loading' = FALSE
               /\ filePc' = "idle"
               /\ fileBefore' = << >>
               /\ UNCHANGED <<file, error, fileUri, fileHash, fileData, fileCalls,
                              fileFailed, unhandled>>
          ELSE /\ fileCalls' = [fileCalls EXCEPT !.axios = @ + 1]
               /\ filePc' = "axios"
               /\ UNCHANGED <<file, results, loading, error, fileUri, fileHash, fileData,
                              fileFailed, fileOrigin, fileBefore, unhandled>>
    /\ UNCHANGED <<sharedVars, homeVars, sevVars, chartVars, normVars>>

\* await axios.get(...) settles; a response is normalised and setItem is called.
FileAxiosSettles ==
    /\ filePc = "axios"
    /\ LET outcomes == AxiosOutcomes(TheValue(fileHash))
       IN  \E i \in DOMAIN outcomes :
             LET resultData == IF outcomes[i].ok THEN FileResultData(outcomes[i].value)
                               ELSE outcomes[i]
             IN  IF ~resultData.ok THEN FileCatch(resultData.err)
                 ELSE /\ fileData' = resultData.value
                      /\ fileCalls' = [fileCalls EXCEPT !.setItem = @ + 1]
                      /\ filePc' = "setItem"
                      /\ UNCHANGED <<file, results, loading, error, fileUri, fileHash,
                                     fileFailed, fileOrigin, fileBefore, unhandled>>
    /\ UNCHANGED <<sharedVars, homeVars, sevVars, chartVars, normVars>>

\* await AsyncStorage.setItem(hash, JSON.stringify(resultData)) settles.
FileSetItemSettles ==
    /\ filePc = "setItem"
    /\ \/ /\ FileCatch(StorageError)
          /\ UNCHANGED sharedVars
       \/ /\ cache' = SetItem(cache, TheValue(fileHash), JSONstringify(fileData))
          /\ writes' = LogWrite(writes, TheValue(fileHash), "file")
          /\ results' = fileData
          /\ fileOrigin' = Some([hash |-> TheValue(fileHash), via |-> "network"])
          /\ loading' = FALSE
          /\ filePc' = "idle"
          /\ fileData' = Null
          /\ fileBefore' = << >>
          /\ UNCHANGED <<file, error, fileUri, fileHash, fileCalls, fileFailed,
                         unhandled>>
    /\ UNCHANGED <<homeVars, sevVars, chartVars, normVars>>

-----------------------------------------------------------------------------
(* The application *)

InitApp ==
    /\ cache = << >>
    /\ writes = << >>
    /\ shaInput = EmptyString
    /\ shaResults = Null
    /\ shaLoading = FALSE
    /\ shaError = EmptyString
    /\ progressAnim = "0"
    /\ homePc = "idle"
    /\ homeHash = Undefined
    /\ homeData = Null
    /\ homeCalls = NoCalls
    /\ homeFailed = FALSE
    /\ homeOrigin = Undefined
    /\ homeBefore = << >>
    /\ file = Null
    /\ results = Null
    /\ loading = FALSE
    /\ error = EmptyString
    /\ filePc = "idle"
    /\ fileUri = Undefined
    /\ fileHash = Undefined
    /\ fileData = Null
    /\ fileCalls = NoCalls
    /\ fileFailed = FALSE
    /\ fileOrigin = Undefined
    /\ fileBefore = << >>
    /\ unhandled = FALSE

\* Nothing drawn (no slice) and nothing normalised yet.
InitChart ==
    /\ chartInput = Null
    /\ chartProgress = Zero
    /\ chartFile = << >>
    /\ chartHome = << >>

InitNorm ==
    /\ normBody = Null
    /\ normFile = Null
    /\ normHome = Null

Init ==
    /\ InitApp
    /\ sevInput = Null
    /\ sevFile = "pending"
    /\ sevHome = "pending"
    /\ InitChart
    /\ InitNorm

Next ==
    \/ ChangeText
    \/ CheckHash
    \/ HomeGetItemSettles
    \/ HomeAxiosSettles
    \/ HomeSetItemSettles
    \/ PickDocument
    \/ FileFetchSettles
    \/ FileBlobSettles
    \/ FileReaderSettles
    \/ FileDigestSettles
    \/ FileGetItemSettles
    \/ FileAxiosSettles
    \/ FileSetItemSettles

Spec == Init /\ [][Next]_vars

\* The hash screen used alone.
HomeNext ==
    \/ ChangeAnyText
    \/ CheckHash
    \/ HomeGetItemSettles
    \/ HomeAxiosSettles
    \/ HomeSetItemSettles

HomeSpec == Init /\ [][HomeNext]_vars


-----------------------------------------------------------------------------
(* getSeverityLevel applied to results with counts up to MaxCount *)

MaxCount == 12

SeverityInputs ==
    { Null } \cup
    { [stats |-> Some([malicious |-> m, suspicious |-> s, undetected |-> u,
                       harmless |-> 0]),
       vendors |-> << >>] : m \in 0..MaxCount, s \in 0..MaxCount, u \in {0, 40} }

SeverityInit ==
    /\ InitApp
    /\ sevInput \in SeverityInputs
    /\ sevFile = "pending"
    /\ sevHome = "pending"
    /\ InitChart
    /\ InitNorm

FileSeverity ==
    /\ sevFile = "pending"
    /\ sevFile' = FileGetSeverityLevel(sevInput)
    /\ UNCHANGED <<sevInput, sevHome, sharedVars, homeVars, fileVars, chartVars, normVars>>

HomeSeverity ==
    /\ sevHome = "pending"
    /\ sevHome' = HomeGetSeverityLevel(sevInput)
    /\ UNCHANGED <<sevInput, sevFile, sharedVars, homeVars, fileVars, chartVars, normVars>>

SeverityNext ==
    \/ FileSeverity
    \/ HomeSeverity

SeveritySpec == SeverityInit /\ [][SeverityNext]_vars

-----------------------------------------------------------------------------
(* AnimatedPieChart applied to stats with counts up to MaxSlice, at the      *)
(* values of progress in ProgressValues                                      *)

MaxSlice == 3

ChartInputs ==
    { [stats |-> Some([malicious |-> m, suspicious |-> s, harmless |-> h,
                       undetected |-> u]),
       vendors |-> << >>] : m \in 0..MaxSlice, s \in 0..MaxSlice, h \in 0..MaxSlice,
                            u \in 0..MaxSlice }
    \cup { [stats |-> Some(StatsFull), vendors |-> << >>] }

ChartInit ==
    /\ InitApp
    /\ sevInput = Null
    /\ sevFile = "pending"
    /\ sevHome = "pending"
    /\ chartInput \in ChartInputs
    /\ chartProgress \in ProgressValues
    /\ chartFile = << >>
    /\ chartHome = << >>
    /\ InitNorm

\* <AnimatedPieChart data={pieData} /> of FileScannerScreen, rendered at progress
FileChart ==
    /\ chartFile = << >>
    /\ chartFile' = FileAnimatedPieChart(FilePieData(chartInput), chartProgress)
    /\ UNCHANGED <<chartInput, chartProgress, chartHome>>
    /\ UNCHANGED <<sharedVars, homeVars, fileVars, sevVars, normVars>>

\* <AnimatedPieChart data={pieData} /> of HomeScreen, rendered at progress
HomeChart ==
    /\ chartHome = << >>
    /\ chartHome' = HomeAnimatedPieChart(HomePieData(chartInput), chartProgress)
    /\ UNCHANGED <<chartInput, chartProgress, chartFile>>
    /\ UNCHANGED <<sharedVars, homeVars, fileVars, sevVars, normVars>>

ChartNext ==
    \/ FileChart
    \/ HomeChart

ChartSpec == ChartInit /\ [][ChartNext]_vars

-----------------------------------------------------------------------------
(* The normalisation applied to response bodies of up to MaxEngines engines  *)

MaxEngines == 2

\* The keys of last_analysis_results, in the order they are enumerated.
EngineNames == << "Kaspersky", "Avast", "Bkav", "ClamAV" >>

EngineVerdicts ==
    [result : {Undefined, Some(""), Some("Trojan.Generic")},
     category : {Undefined, Some("malicious"), Some("undetected")}]

EngineMaps ==
    UNION { { [i \in 1..n |-> [vendor |-> EngineNames[i], data |-> verdicts[i]]] :
                verdicts \in [1..n -> EngineVerdicts] } : n \in 0..MaxEngines }

NormBodies ==
    { [attributes |-> Some([last_analysis_results |-> engines,
                            last_analysis_stats |-> StatsFull])] : engines \in EngineMaps }
    \cup { [attributes |-> Some([last_analysis_results |-> engines])] :
             engines \in EngineMaps }
    \cup { BodyNoResults, BodyNoAttributes }

NormInit ==
    /\ InitApp
    /\ sevInput = Null
    /\ sevFile = "pending"
    /\ sevHome = "pending"
    /\ InitChart
    /\ normBody \in NormBodies
    /\ normFile = Null
    /\ normHome = Null

\* checkVirusTotal from the response to resultData
FileNormalise ==
    /\ normFile = Null
    /\ normFile' = FileResultData(normBody)
    /\ UNCHANGED <<normBody, normHome>>
    /\ UNCHANGED <<sharedVars, homeVars, fileVars, sevVars, chartVars>>

\* checkHash from the response to resultData
HomeNormalise ==
    /\ normHome = Null
    /\ normHome' = HomeResultData(normBody)
    /\ UNCHANGED <<normBody, normFile>>
    /\ UNCHANGED <<sharedVars, homeVars, fileVars, sevVars, chartVars>>

NormNext ==
    \/ FileNormalise
    \/ HomeNormalise

NormSpec == NormInit /\ [][NormNext]_vars


-----------------------------------------------------------------------------
(* Properties *)

\* The texts that match ^[a-fA-F0-9]{64}$, stated from the pattern.
IsSha256Hex(text) ==
    /\ TextLen(text) = 64
    /\ \A i \in DOMAIN text :
         text[i].ch \in {"0", "1", "2", "3", "4", "5", "6", "7", "8", "9", "a", "b",
                         "c", "d", "e", "f", "A", "B", "C", "D", "E", "F"}

\* C1: on the hash screen a press of the button with a text that does not
\* match ^[a-fA-F0-9]{64}$ ends with the 'Invalid SHA256 format' message, no
\* flow suspended, no getItem, setItem or axios call, the cache as it was and
\* the loading flag not set; and that is the state the attempt leaves behind.
C1_MalformedInputRejected ==
    /\ [](\A text \in homeHash :
            ~IsSha256Hex(text) =>
                /\ shaError = InvalidSha256
                /\ ~shaLoading
                /\ homePc = "idle"
                /\ homeCalls = NoCalls)
    /\ [][(CheckHash /\ ~IsSha256Hex(shaInput)) =>
            /\ shaError' = InvalidSha256
            /\ shaLoading' = FALSE
            /\ homePc' = "idle"
            /\ homeCalls' = NoCalls
            /\ cache' = cache
            /\ writes' = writes]_vars

\* C1 witness: a text of 64 characters, one of them no hex digit, was rejected.
C1_Witness ==
    \E text \in homeHash :
        /\ TextLen(text) = 64
        /\ ~IsSha256Hex(text)
        /\ shaError = InvalidSha256

\* The steps in which a lookup finds its fingerprint in the cache.
HomeHit == homePc = "getItem" /\ homePc' = "idle" /\ shaError' = EmptyString
FileHit == filePc = "getItem" /\ filePc' = "idle" /\ error' = EmptyString

\* The results a screen shows that it fetched for fingerprint h and stored.
ShownFromNetwork(h) ==
    { shaResults : o \in { o \in homeOrigin : o.hash = h /\ o.via = "network" } }
    \cup { results : o \in { o \in fileOrigin : o.hash = h /\ o.via = "network" } }

\* What reading every property of a ScanResult yields: a missing key and a key
\* whose value is undefined read the same.
Reads(r) ==
    [stats |-> StatsOf(r),
     vendors |-> [i \in DOMAIN r.vendors |->
                    [vendor |-> r.vendors[i].vendor,
                     result |-> r.vendors[i].result,
                     category |-> IF "category" \in DOMAIN r.vendors[i]
                                  THEN r.vendors[i].category ELSE Undefined]]]

NoUndefinedField(r) ==
    /\ r.stats # Undefined
    /\ \A i \in DOMAIN r.vendors : r.vendors[i].category # Undefined

\* C2 as claimed: a lookup that finds the entry of fp issues no request and
\* shows a result equal (property by property) to every result r that a
\* screen fetched for fp, stored and still shows.
C2_HitShowsWhatWasStored ==
    [][/\ HomeHit =>
            /\ homeCalls'.axios = 0
            /\ \A r \in ShownFromNetwork(TheValue(homeHash)) :
                 Reads(shaResults') = Reads(r)
       /\ FileHit =>
            /\ fileCalls'.axios = 0
            /\ \A r \in ShownFromNetwork(TheValue(fileHash)) :
                 Reads(results') = Reads(r)]_vars

\* C2 amended: a lookup that finds the entry of fp issues no request and
\* shows the parse of the entry; for a result r that a screen fetched for fp
\* and that is still what the entry holds, this is r without its undefined
\* fields: it reads like r, and is equal to r when r has no undefined field.
C2_HitShowsTheEntry ==
    [][/\ HomeHit =>
            LET h == TheValue(homeHash)
            IN  /\ homeCalls'.axios = 0
                /\ shaResults' = JSONparse(cache[h])
                /\ \A r \in ShownFromNetwork(h) :
                     cache[h] = JSONstringify(r) =>
                        /\ Reads(shaResults') = Reads(r)
                        /\ NoUndefinedField(r) => shaResults' = r
                        /\ ~NoUndefinedField(r) => shaResults' # r
       /\ FileHit =>
            LET h == TheValue(fileHash)
            IN  /\ fileCalls'.axios = 0
                /\ results' = JSONparse(cache[h])
                /\ \A r \in ShownFromNetwork(h) :
                     cache[h] = JSONstringify(r) =>
                        /\ Reads(results') = Reads(r)
                        /\ NoUndefinedField(r) => results' = r
                        /\ ~NoUndefinedField(r) => results' # r]_vars

\* C2 witness: the hash screen shows from the cache what the file screen
\* fetched for the same fingerprint and stored.
C2_Witness ==
    /\ \E o \in homeOrigin : o.via = "cache" /\ ShownFromNetwork(o.hash) = { results }
    /\ shaResults = results
    /\ homeCalls.axios = 0

\* C3 as claimed: a response without last_analysis_results or without
\* last_analysis_stats ends in an error, so no result without stats is ever
\* stored or shown.
C3_NoResultWithoutStats ==
    /\ \A k \in DOMAIN cache : StatsOf(JSONparse(cache[k])) # Undefined
    /\ shaResults # Null => StatsOf(shaResults) # Undefined
    /\ results # Null => StatsOf(results) # Undefined

\* C4 as claimed: no failure escapes unhandled, and when an interaction in
\* which something failed has come to rest its screen shows a message.
C4_EveryFailureShown ==
    /\ ~unhandled
    /\ (filePc = "idle" /\ fileFailed) => ~IsEmptyString(error)
    /\ (homePc = "idle" /\ homeFailed) => ~IsEmptyString(shaError)

\* C5 as claimed: a flow that has nothing left to run has reset the loading
\* flag of its screen.
C5_RestingFlowNotLoading ==
    /\ filePc = "idle" => ~loading
    /\ homePc = "idle" => ~shaLoading

\* The level the table of the severity classifier gives.
TableLevel(res) ==
    IF res = Null THEN "Unknown"
    ELSE LET totalBad == TheValue(res.stats).malicious + TheValue(res.stats).suspicious
         IN  CASE totalBad = 0 -> "Clean"
               [] totalBad \in 1..2 -> "Low Risk"
               [] totalBad \in 3..5 -> "Moderate Risk"
               [] totalBad \in 6..10 -> "High Risk"
               [] totalBad > 10 -> "Critical Risk"

\* C6: getSeverityLevel of either screen returns the level of the table for
\* malicious + suspicious, Unknown exactly for no results, and the two
\* screens agree.
C6_SeverityTable ==
    /\ sevFile # "pending" => sevFile = TableLevel(sevInput)
    /\ sevHome # "pending" => sevHome = TableLevel(sevInput)
    /\ (sevFile # "pending" /\ sevHome # "pending") => sevFile = sevHome
    /\ sevFile = "Unknown" => sevInput = Null
    /\ sevHome = "Unknown" => sevInput = Null

\* C6 witness: both screens classified a result on a boundary of the table.
C6_Witness ==
    /\ sevInput # Null
    /\ TheValue(sevInput.stats).malicious + TheValue(sevInput.stats).suspicious = 10
    /\ sevFile = "High Risk"
    /\ sevHome = "High Risk"

AllZero(data) == \A i \in DOMAIN data : data[i].value = Zero

NoNaNAngle(slices) ==
    \A i \in DOMAIN slices : ~IsNaN(slices[i].startAngle) /\ ~IsNaN(slices[i].endAngle)

\* C7 as claimed: a chart drawn for counts that are all zero has no NaN angle.
C7_ZeroTotalNoNaN ==
    /\ (HomeRendersResults /\ StatsOf(shaResults) # Undefined
            /\ AllZero(HomePieData(shaResults))) =>
          \A p \in ProgressValues :
             NoNaNAngle(HomeAnimatedPieChart(HomePieData(shaResults), p))
    /\ (FileRendersResults /\ StatsOf(results) # Undefined
            /\ AllZero(FilePieData(results))) =>
          \A p \in ProgressValues :
             NoNaNAngle(FileAnimatedPieChart(FilePieData(results), p))

\* C8 as claimed: the value stored under a fingerprint is never removed and
\* never changed by a later step.
C8_EntryNeverChanges ==
    [][\A k \in DOMAIN cache : k \in DOMAIN cache' /\ cache'[k] = cache[k]]_vars

\* C8 amended: an entry that was written is never removed, and each screen
\* writes it at most once: it is written a second time, and may change, only
\* by the other screen.
C8_EntryWrittenOncePerScreen ==
    /\ [](/\ DOMAIN writes = DOMAIN cache
          /\ \A k \in DOMAIN writes : writes[k].home <= 1 /\ writes[k].file <= 1)
    /\ [][\A k \in DOMAIN cache :
             /\ k \in DOMAIN cache'
             /\ cache'[k] # cache[k] => writes'[k] # writes[k]]_vars

\* C8 witness: both screens have written the entry of one fingerprint.
C8_Witness == \E k \in DOMAIN writes : writes[k].home = 1 /\ writes[k].file = 1

HasAllStatKeys(r) ==
    StatsOf(r) # Undefined /\ StatKeys \subseteq DOMAIN TheValue(StatsOf(r))

\* C10 as claimed: every result stored or shown has stats with the four keys
\* malicious, suspicious, undetected and harmless.
C10_StatsHaveFourKeys ==
    /\ \A k \in DOMAIN cache : HasAllStatKeys(JSONparse(cache[k]))
    /\ shaResults # Null => HasAllStatKeys(shaResults)
    /\ results # Null => HasAllStatKeys(results)

\* A message made by the catch of a lookup: 'VirusTotal Error: ' and a text.
IsVirusTotalError(msg) ==
    Len(msg) = 2 /\ msg[1] = "VirusTotal Error: " /\ msg[2] # ""

\* The steps of a lookup of the hash screen and of the file screen.
HomeLookupStep == homePc' # homePc \/ homeCalls' # homeCalls
FileLookupStep == filePc' # filePc \/ fileCalls' # fileCalls

\* C11: a lookup has issued no request while it waits for the cache, one
\* request from the miss on and never a second one; the step that finds no
\* entry issues the request whatever else is in flight for that fingerprint,
\* the step that finds an entry issues none; a request that fails ends the
\* lookup with a 'VirusTotal Error: ' message and is not issued again.
C11_OneRequestPerMiss ==
    /\ [](/\ homePc = "getItem" => homeCalls.axios = 0
          /\ homePc \in {"axios", "setItem"} => homeCalls.axios = 1
          /\ homeCalls.axios <= 1
          /\ \A o \in homeOrigin : (homePc = "idle" /\ o.via = "cache" /\ ~homeFailed
                                       /\ homeHash = {o.hash}) => homeCalls.axios = 0
          /\ filePc = "getItem" => fileCalls.axios = 0
          /\ filePc \in {"axios", "setItem"} => fileCalls.axios = 1
          /\ fileCalls.axios <= 1)
    /\ [][/\ (homePc = "getItem" /\ HomeLookupStep) =>
               IF TheValue(homeHash) \in DOMAIN cache
               THEN homePc' = "idle" /\ homeCalls'.axios = 0
               ELSE \/ homePc' = "axios" /\ homeCalls'.axios = 1
                    \/ homePc' = "idle" /\ homeCalls'.axios = 0
                          /\ IsVirusTotalError(shaError')
          /\ (homePc = "axios" /\ HomeLookupStep) =>
               /\ homeCalls'.axios = 1
               /\ \/ homePc' = "setItem" /\ shaError' = shaError
                  \/ homePc' = "idle" /\ IsVirusTotalError(shaError') /\ ~shaLoading'
          /\ (homePc = "setItem" /\ HomeLookupStep) =>
               homePc' = "idle" /\ homeCalls'.axios = 1
          /\ (filePc = "getItem" /\ FileLookupStep) =>
               IF TheValue(fileHash) \in DOMAIN cache
               THEN filePc' = "idle" /\ fileCalls'.axios = 0
               ELSE \/ filePc' = "axios" /\ fileCalls'.axios = 1
                    \/ filePc' = "idle" /\ fileCalls'.axios = 0
                          /\ IsVirusTotalError(error')
          /\ (filePc = "axios" /\ FileLookupStep) =>
               /\ fileCalls'.axios = 1
               /\ \/ filePc' = "setItem" /\ error' = error
                  \/ filePc' = "idle" /\ IsVirusTotalError(error') /\ ~loading'
          /\ (filePc = "setItem" /\ FileLookupStep) =>
               filePc' = "idle" /\ fileCalls'.axios = 1]_vars

\* C11 witness: the lookups of the two screens have both missed the cache for
\* the same fingerprint and each has its own request in flight.
C11_Witness ==
    /\ homePc = "axios" /\ filePc = "axios"
    /\ homeHash = fileHash
    /\ homeCalls.axios = 1 /\ fileCalls.axios = 1
    /\ TheValue(homeHash) \notin DOMAIN cache

\* C12 as claimed: while a lookup of a screen has not resolved, a press of
\* the screen's button starts a second one.
C12_SecondLookupStarts ==
    /\ homePc # "idle" => ENABLED CheckHash
    /\ filePc # "idle" => ENABLED PickDocument

\* C12 amended: while a lookup of a screen has not resolved the screen's
\* button is disabled and no second lookup starts on that screen; the lookups
\* of the two screens run at once, and a step of one leaves the other's flow,
\* loading flag, message and shown result as they are.
C12_OneLookupPerScreen ==
    /\ [](/\ homePc # "idle" => (shaLoading /\ HomeButtonDisabled /\ ~ENABLED CheckHash)
          /\ filePc # "idle" => (loading /\ FileButtonDisabled /\ ~ENABLED PickDocument))
    /\ [][/\ HomeLookupStep => fileVars' = fileVars
          /\ FileLookupStep => homeVars' = homeVars
          /\ homeHash' # homeHash => (homePc = "idle" /\ ~shaLoading)
          /\ (fileUri' # fileUri \/ file' # file) => (filePc = "idle" /\ ~loading)]_vars

\* C12 witness: both screens have a lookup in flight, for different
\* fingerprints, and both buttons are disabled.
C12_Witness ==
    /\ homePc = "axios" /\ filePc = "setItem"
    /\ homeHash # fileHash
    /\ HomeButtonDisabled /\ FileButtonDisabled

\* The counts a chart is drawn for, in the order of pieData.
ChartCounts ==
    LET stats == TheValue(chartInput.stats)
    IN  << stats.malicious, stats.suspicious, stats.harmless, stats.undetected >>

ChartTotal == ChartCounts[1] + ChartCounts[2] + ChartCounts[3] + ChartCounts[4]

\* The charts that have been drawn.
ChartsDrawn == { chartFile, chartHome } \ { << >> }

\* endAngle - startAngle of a slice whose angles are finite.
Span(slice) ==
    Rat(slice.endAngle.num * slice.startAngle.den
            - slice.startAngle.num * slice.endAngle.den,
        slice.endAngle.den * slice.startAngle.den)

FiniteAngles(slices) ==
    \A i \in DOMAIN slices :
        /\ IsFinite(slices[i].startAngle) /\ IsFinite(slices[i].endAngle)
        /\ slices[i].endAngle.num * slices[i].startAngle.den
              >= slices[i].startAngle.num * slices[i].endAngle.den

C14_StartFixedEndScaled ==
    \A slices \in ChartsDrawn :
        ChartTotal > 0 =>
            /\ Len(slices) = 4
            /\ \A i \in 1..4 :
                  LET before == IF i = 1 THEN 0
                                ELSE IF i = 2 THEN ChartCounts[1]
                                ELSE IF i = 3 THEN ChartCounts[1] + ChartCounts[2]
                                ELSE ChartCounts[1] + ChartCounts[2] + ChartCounts[3]
                      start == Rat(360 * before, ChartTotal)
                  IN  /\ slices[i].startAngle = start
                      /\ slices[i].endAngle =
                            NumAdd(start, Rat(chartProgress.num * 360 * ChartCounts[i],
                                              chartProgress.den * ChartTotal))
            /\ chartProgress = Zero =>
                  \A i \in 1..4 : slices[i].endAngle = slices[i].startAngle
            /\ chartProgress = Rat(1, 1) =>
                  \A i \in 1..3 : slices[i].endAngle = slices[i + 1].startAngle

\* C14 witness: both charts are drawn half way for counts that are all
\* positive: the second slice starts at a quarter turn and is a sixth of a
\* turn long, of which half is drawn.
C14_Witness ==
    /\ chartFile # << >> /\ chartHome # << >>
    /\ chartProgress = Rat(1, 2)
    /\ ChartCounts = << 3, 2, 1, 3 >>
    /\ chartHome[2].startAngle = Rat(120, 1)
    /\ chartHome[2].endAngle = Rat(160, 1)

\* The normalisations that have been computed.
Normalised == { normFile, normHome } \ { Null }

\* C15: for a body that has attributes and the per-engine map, resultData is
\* built, and its vendors hold one entry per engine, in the order of the map,
\* with the engine's name and category as they are and its result, or 'Clean'
\* where the engine has no result or an empty one.
C15_VendorsFromEngines ==
    \A out \in Normalised :
        (/\ normBody.attributes # Undefined
         /\ "last_analysis_results" \in DOMAIN TheValue(normBody.attributes)) =>
            LET engines == TheValue(normBody.attributes).last_analysis_results
            IN  /\ out.ok
                /\ Len(out.value.vendors) = Len(engines)
                /\ \A i \in DOMAIN engines :
                      /\ out.value.vendors[i].vendor = engines[i].vendor
                      /\ out.value.vendors[i].category = engines[i].data.category
                      /\ out.value.vendors[i].result =
                            (IF engines[i].data.result \in {Undefined, Some("")}
                             THEN "Clean"
                             ELSE TheValue(engines[i].data.result))

\* C15 witness: both screens normalised a body of two engines, the first with
\* a result, the second with an empty one and no category.
C15_Witness ==
    /\ normFile # Null /\ normHome # Null
    /\ normFile.ok /\ normHome.ok
    /\ normHome.value.vendors =
          << [vendor |-> "Kaspersky", result |-> "Trojan.Generic",
              category |-> Some("malicious")],
             [vendor |-> "Avast", result |-> "Clean", category |-> Undefined] >>
    /\ TheValue(normBody.attributes).last_analysis_results[2].data.result = Some("")

\* The steps that end a lookup with a message, and those that end it with
\* the entry found in the cache.
HomeEndsInError == homePc # "idle" /\ homePc' = "idle" /\ ~IsEmptyString(shaError')
FileEndsInError ==
    filePc \in {"getItem", "axios", "setItem"} /\ filePc' = "idle"
        /\ ~IsEmptyString(error')
HomeRejectsInput == homePc = "idle" /\ homeHash' # Undefined /\ shaError' = InvalidSha256
                        /\ (homeHash' # homeHash \/ shaError' # shaError
                             \/ homeFailed' # homeFailed \/ homeCalls' # homeCalls)
HomeEndsInHit ==
    homePc = "getItem" /\ homePc' = "idle" /\ IsEmptyString(shaError')
FileEndsInHit ==
    filePc = "getItem" /\ filePc' = "idle" /\ IsEmptyString(error')

\* C16 as claimed: when a lookup ends in an error or with the entry it found,
\* the cache is exactly as it was when the lookup started.
C16_CacheAsBeforeLookup ==
    [][/\ (HomeEndsInError \/ HomeEndsInHit) => cache' = homeBefore
       /\ (FileEndsInError \/ FileEndsInHit) => cache' = fileBefore
       /\ HomeRejectsInput => cache' = cache]_vars

\* C16 amended: a lookup that ends in an error or with the entry it found has
\* written nothing: none of its steps changes the cache, which changes only
\* in the step that ends a lookup with a fetched result, under that lookup's
\* fingerprint; where the cache differs at the end from what it was when the
\* lookup started, the key was written by the other screen.
C16_FailedLookupWritesNothing ==
    [][/\ (HomeEndsInError \/ HomeEndsInHit \/ HomeRejectsInput) =>
            /\ cache' = cache
            /\ writes' = writes
       /\ (HomeEndsInError \/ HomeEndsInHit) =>
            \A k \in DOMAIN cache' :
                (k \notin DOMAIN homeBefore \/ cache'[k] # homeBefore[k]) =>
                    writes'[k].file >= 1
       /\ (FileEndsInError \/ FileEndsInHit) =>
            /\ cache' = cache
            /\ writes' = writes
            /\ \A k \in DOMAIN cache' :
                 (k \notin DOMAIN fileBefore \/ cache'[k] # fileBefore[k]) =>
                     writes'[k].home >= 1
       /\ cache' # cache =>
            \/ /\ homePc = "setItem" /\ homePc' = "idle" /\ IsEmptyString(shaError')
               /\ homeFailed' = FALSE
               /\ \A k \in DOMAIN cache : k = TheValue(homeHash) \/ cache'[k] = cache[k]
               /\ DOMAIN cache' = DOMAIN cache \cup homeHash
            \/ /\ filePc = "setItem" /\ filePc' = "idle" /\ IsEmptyString(error')
               /\ fileFailed' = FALSE
               /\ \A k \in DOMAIN cache : k = TheValue(fileHash) \/ cache'[k] = cache[k]
               /\ DOMAIN cache' = DOMAIN cache \cup fileHash]_vars

\* C16 witness: the hash screen's lookup has ended with a 'VirusTotal Error: '
\* message, having called setItem, and there is no entry for its fingerprint.
C16_Witness ==
    /\ homePc = "idle" /\ homeFailed
    /\ IsVirusTotalError(shaError)
    /\ homeCalls.setItem = 1
    /\ \A h \in homeHash : h \notin DOMAIN cache
    /\ cache # << >>

\* C17: a screen that is not loading, has no message and has a result shows
\* the result of the lookup it started last: the result was obtained for
\* the fingerprint of that lookup (on the file screen the digest of the
\* selected file), that lookup has ended and nothing of it failed; the step
\* that ends a lookup without a message shows what that lookup obtained;
\* and a screen with a message renders no result.
C17_RestShowsLatestLookup ==
    /\ [](/\ (~shaLoading /\ IsEmptyString(shaError) /\ shaResults # Null) =>
               /\ homePc = "idle"
               /\ ~homeFailed
               /\ \E o \in homeOrigin : homeHash = { o.hash }
          /\ (~loading /\ IsEmptyString(error) /\ results # Null) =>
               /\ filePc = "idle"
               /\ ~fileFailed
               /\ file # Null
               /\ \E o \in fileOrigin :
                     fileHash = { o.hash } /\ (fileUri # Undefined => fileUri = { file.uri })
          /\ ~IsEmptyString(shaError) => ~HomeRendersResults
          /\ ~IsEmptyString(error) => ~FileRendersResults)
    /\ [][/\ (homePc # "idle" /\ homePc' = "idle" /\ IsEmptyString(shaError')) =>
               /\ homeOrigin' = { [hash |-> TheValue(homeHash),
                                   via |-> IF homePc = "getItem" THEN "cache"
                                           ELSE "network"] }
               /\ shaResults' = (IF homePc = "getItem"
                                 THEN JSONparse(cache[TheValue(homeHash)])
                                 ELSE homeData)
          /\ (filePc \in {"getItem", "axios", "setItem"} /\ filePc' = "idle"
                  /\ IsEmptyString(error')) =>
               /\ fileOrigin' = { [hash |-> TheValue(fileHash),
                                   via |-> IF filePc = "getItem" THEN "cache"
                                           ELSE "network"] }
               /\ results' = (IF filePc = "getItem"
                              THEN JSONparse(cache[TheValue(fileHash)])
                              ELSE fileData)]_vars

\* C17 witness: the hash screen, which had fetched and stored a result for
\* one fingerprint, is at rest and shows the result it fetched for another;
\* the file screen is at rest and shows a result too.
C17_Witness ==
    /\ ~shaLoading /\ IsEmptyString(shaError) /\ shaResults # Null
    /\ homeOrigin = { [hash |-> HashB, via |-> "network"] }
    /\ HashA \in DOMAIN writes /\ writes[HashA].home = 1
    /\ shaResults # JSONparse(cache[HashA])
    /\ ~loading /\ IsEmptyString(error) /\ results # Null

====
